---- MODULE Spec2Model ----
(***************************************************************************)
(* The peak limiter of src/nodes/limiter/dsp/src/lib.rs as a state         *)
(* machine: one Limiter instance behind a raw handle, driven by            *)
(* limiter_new, limiter_set_params, limiter_process_interleaved and        *)
(* limiter_free.                                                           *)
(*                                                                         *)
(* Arithmetic.  The source computes in f32.  The model computes in a       *)
(* binary floating-point format of the same kind and smaller size:         *)
(* MantBits significand bits (f32: 24), largest exponent ExpMax (f32:      *)
(* 127), gradual underflow, round to nearest with ties to even, signed     *)
(* zeros, the two infinities and NaN.  Every operation rounds once, as in  *)
(* IEEE 754, so rounding error, overflow to infinity and NaN propagation   *)
(* are those of the source up to the size of the format.  The format is    *)
(* chosen so that the properties of f32 the code relies on carry over:     *)
(* the program's constants 20, 24, 60, 120, 1000 and 5000 are exact, and   *)
(* ceiling_lin / peak does not underflow to zero for a finite peak.        *)
(***************************************************************************)
EXTENDS Integers, Sequences, FiniteSets, TLC

\* significand bits of the reduced format (f32 has 24)
MantBits == 10
\* exponent of the largest binade of the reduced format (f32 has 127)
ExpMax == 17
\* exponent of the smallest normal binade
ExpMin == -(ExpMax + 4)
\* exponent of the unit in the last place of the smallest / largest binade
LsbMin == ExpMin - (MantBits - 1)
LsbMax == ExpMax - (MantBits - 1)

(***************************************************************************)
(* A value is [c, s, m, e]: class "fin" | "inf" | "nan", sign bit s, and   *)
(* for a finite value the magnitude m * 2^e in canonical form: a normal    *)
(* number has 2^(MantBits-1) <= m < 2^MantBits, a subnormal has            *)
(* e = LsbMin and a smaller m, zero has m = 0.                             *)
(***************************************************************************)
NaN == [c |-> "nan", s |-> 0, m |-> 0, e |-> 0]
Inf(s) == [c |-> "inf", s |-> s, m |-> 0, e |-> 0]
Fin(s, m, e) == [c |-> "fin", s |-> s, m |-> m, e |-> e]
Zero(s) == Fin(s, 0, LsbMin)

IsNaN(v) == v.c = "nan"
IsZero(v) == v.c = "fin" /\ v.m = 0
Xor(s, t) == (s + t) % 2
Sign(x) == IF x < 0 THEN 1 ELSE 0
Mag(x) == IF x < 0 THEN -x ELSE x

\* number of bits of m (0 for m = 0)
BitLen(m) == CHOOSE k \in 0..30 : m < 2^k /\ (k = 0 \/ m >= 2^(k-1))

\* (-1)^s * m * 2^e in canonical form, m <= 2^MantBits: carry, overflow
Pack(s, m, e) ==
    IF m = 2^MantBits
    THEN (IF e + 1 > LsbMax THEN Inf(s) ELSE Fin(s, 2^(MantBits-1), e + 1))
    ELSE (IF e > LsbMax THEN Inf(s) ELSE Fin(s, m, e))

\* quotient q, remainder r against the half h: nearest, ties to even
RndUp(s, q, r, h, sticky, e) ==
    Pack(s, IF r > h \/ (r = h /\ (sticky \/ q % 2 = 1)) THEN q + 1 ELSE q, e)

\* M * 2^E with its last place moved to 2^e
RndTo(s, M, E, sticky, e) ==
    IF e <= E THEN Pack(s, M * 2^(E - e), e)
    ELSE IF e - E > 30 THEN Zero(s)
    ELSE RndUp(s, M \div 2^(e - E), M % 2^(e - E), 2^(e - E - 1), sticky, e)

\* the last place of a value of b bits whose last bit is 2^E
LastPlace(E, b) ==
    IF E + b - MantBits > LsbMin THEN E + b - MantBits ELSE LsbMin

\* The value (-1)^s * M * 2^E, or a value strictly between that and
\* (-1)^s * (M+1) * 2^E when sticky, rounded to the format: nearest, ties to
\* even, gradual underflow, overflow to infinity.
Rnd(s, M, E, sticky) ==
    IF M = 0 THEN Zero(s) ELSE RndTo(s, M, E, sticky, LastPlace(E, BitLen(M)))

\* an integer as the nearest value of the format
IntF(k) == Rnd(Sign(k), Mag(k), 0, FALSE)

Neg(a) == IF IsNaN(a) THEN a ELSE [a EXCEPT !.s = 1 - a.s]
\* f32::abs
Abs(a) == IF IsNaN(a) THEN a ELSE [a EXCEPT !.s = 0]

\* a * b
Mul(a, b) ==
    IF IsNaN(a) \/ IsNaN(b) THEN NaN
    ELSE IF a.c = "inf" \/ b.c = "inf"
         THEN (IF IsZero(a) \/ IsZero(b) THEN NaN ELSE Inf(Xor(a.s, b.s)))
    ELSE Rnd(Xor(a.s, b.s), a.m * b.m, a.e + b.e, FALSE)

\* num / den with num = a.m scaled up by 2^up
DivFin(s, num, den, E) == Rnd(s, num \div den, E, num % den # 0)

\* a / b of nonzero finite values: a.m is first scaled to MantBits bits
DivScaled(a, b, up) ==
    DivFin(Xor(a.s, b.s), a.m * 2^(up + MantBits + 3), b.m,
           a.e - up - (MantBits + 3) - b.e)

\* a / b
Div(a, b) ==
    IF IsNaN(a) \/ IsNaN(b) THEN NaN
    ELSE IF a.c = "inf" THEN (IF b.c = "inf" THEN NaN ELSE Inf(Xor(a.s, b.s)))
    ELSE IF b.c = "inf" THEN Zero(Xor(a.s, b.s))
    ELSE IF IsZero(b) THEN (IF IsZero(a) THEN NaN ELSE Inf(Xor(a.s, b.s)))
    ELSE IF IsZero(a) THEN Zero(Xor(a.s, b.s))
    ELSE DivScaled(a, b, MantBits - BitLen(a.m))

\* the exact sum as a signed integer in units of 2^E
AddExact(sum, E) ==
    IF sum = 0 THEN Zero(0) ELSE Rnd(Sign(sum), Mag(sum), E, FALSE)

\* hi + lo of nonzero finite values, hi.e >= lo.e.  When lo is below a
\* sixteenth of hi's last place it only decides the rounding (a sticky bit).
AddOrdered(hi, lo) ==
    IF hi.e - lo.e <= MantBits + 3
    THEN AddExact((IF hi.s = 1 THEN -1 ELSE 1) * hi.m * 2^(hi.e - lo.e)
                  + (IF lo.s = 1 THEN -1 ELSE 1) * lo.m, lo.e)
    ELSE Rnd(hi.s, hi.m * 8 - (IF hi.s = lo.s THEN 0 ELSE 1), hi.e - 3, TRUE)

\* a + b
Add(a, b) ==
    IF IsNaN(a) \/ IsNaN(b) THEN NaN
    ELSE IF a.c = "inf" THEN (IF b.c = "inf" /\ b.s # a.s THEN NaN ELSE a)
    ELSE IF b.c = "inf" THEN b
    ELSE IF IsZero(a) /\ IsZero(b) THEN Zero(IF a.s = 1 /\ b.s = 1 THEN 1 ELSE 0)
    ELSE IF IsZero(a) THEN b
    ELSE IF IsZero(b) THEN a
    ELSE IF a.e >= b.e THEN AddOrdered(a, b) ELSE AddOrdered(b, a)

Sub(a, b) == Add(a, Neg(b))

\* position of a non-NaN value in the order of the format: neighbours
\* differ by 1, -0 and +0 agree
Ord(a) ==
    IF a.c = "inf"
    THEN (IF a.s = 1 THEN -1 ELSE 1) * ((LsbMax - LsbMin) * 2^(MantBits-1) + 2^MantBits)
    ELSE (IF a.s = 1 THEN -1 ELSE 1) * ((a.e - LsbMin) * 2^(MantBits-1) + a.m)

\* a < b, a > b, a <= b: false when either is NaN
Lt(a, b) == ~IsNaN(a) /\ ~IsNaN(b) /\ Ord(a) < Ord(b)
Gt(a, b) == Lt(b, a)
Le(a, b) == ~IsNaN(a) /\ ~IsNaN(b) /\ Ord(a) <= Ord(b)

\* f32::max: the other argument when one is NaN
Max(a, b) == IF IsNaN(a) THEN b ELSE IF IsNaN(b) THEN a ELSE IF Lt(a, b) THEN b ELSE a

\* f32::is_finite
IsFinite(v) == v.c = "fin"

One == Fin(0, 2^(MantBits-1), -(MantBits-1))
\* a ratio of two integers as the nearest value of the format
Ratio(n, d) == Div(IntF(n), IntF(d))

(***************************************************************************)
(* exp and powf.  Both are computed in fixed point with FixBits fraction   *)
(* bits (a Taylor series after range reduction) and rounded to the format, *)
(* which gives them the accuracy of a libm call: within one unit in the    *)
(* last place, exact at exp(0) = 1 and 10^0 = 1.                           *)
(***************************************************************************)
FixBits == MantBits + 4

\* a finite x with |x| < 4 as the integer x * 2^FixBits, truncated
ToFix(x) ==
    (IF x.s = 1 THEN -1 ELSE 1) *
    (IF x.e + FixBits >= 0 THEN x.m * 2^(x.e + FixBits)
     ELSE IF -(x.e + FixBits) > 30 THEN 0
     ELSE x.m \div 2^(-(x.e + FixBits)))

RECURSIVE ExpSeries(_, _, _, _)
ExpSeries(X, term, k, acc) ==
    IF k > 12 \/ term = 0 THEN acc + term
    ELSE ExpSeries(X, (term * X + k * 2^(FixBits-1)) \div (k * 2^FixBits),
                   k + 1, acc + term)

\* exp(X / 2^FixBits) * 2^FixBits for |X| <= 2^FixBits
ExpFix(X) == ExpSeries(X, 2^FixBits, 1, 0)

\* exp of the fixed-point X, rounded
ExpRnd(X) == Rnd(0, ExpFix(X), -FixBits, X # 0)

\* f32::exp on the arguments the program passes: -1 <= x <= -0
ExpF(x) == IF ~IsFinite(x) THEN NaN ELSE ExpRnd(ToFix(x))

\* 2^(Z / 2^FixBits), rounded: 2^k * exp(f * ln 2), Z / 2^FixBits = k + f
Pow2Rnd(Z) ==
    Rnd(0, ExpFix(((Z % 2^FixBits) * 45426 + 2^15) \div 2^16),
        (Z \div 2^FixBits) - FixBits, Z # 0)

\* Y * log2(10) in fixed point, the product taken in two parts to stay in range
TimesLog2Of10(Y) ==
    ((Y \div 128) * 217706) \div 2^9 + ((Y % 128) * 217706) \div 2^16

\* (10.0_f32).powf(y) on the arguments the program passes: -3 <= y <= 1.2
Pow10(y) == IF ~IsFinite(y) THEN NaN ELSE Pow2Rnd(TimesLog2Of10(ToFix(y)))

(***************************************************************************)
(* The program.                                                            *)
(***************************************************************************)
clamp(v, min, max) ==
    IF ~IsFinite(v) THEN min
    ELSE IF Lt(v, min) THEN min
    ELSE IF Gt(v, max) THEN max
    ELSE v

db_to_lin(db) == Pow10(Div(db, IntF(20)))

\* (-1.0 / n).exp() for n = (r_sec * sample_rate_hz).max(1.0)
release_coeff_for_n(n) == ExpF(Div(Neg(One), n))

release_coeff_for_ms(release_ms, sample_rate_hz) ==
    release_coeff_for_n(
        Max(Mul(Div(clamp(release_ms, Ratio(1, 10), IntF(5000)), IntF(1000)),
                sample_rate_hz),
            One))

\* the Limiter that limiter_new boxes
limiter_new(sample_rate_hz) ==
    [ceiling_lin    |-> db_to_lin(Ratio(-3, 10)),
     makeup_lin     |-> One,
     release_coeff  |-> release_coeff_for_ms(IntF(120), sample_rate_hz),
     bypass         |-> 0,
     stereo_link    |-> 1,
     gain_linked    |-> One,
     gain_ch0       |-> One,
     gain_ch1       |-> One,
     sample_rate_hz |-> sample_rate_hz]

\* limiter_set_params past its null check: the Limiter it leaves
set_params(l, ceiling_db, release_ms, makeup_db, bypass, stereo_link) ==
    [l EXCEPT
       !.ceiling_lin   = db_to_lin(clamp(ceiling_db, IntF(-60), IntF(0))),
       !.makeup_lin    = db_to_lin(clamp(makeup_db, IntF(-24), IntF(24))),
       !.release_coeff = release_coeff_for_ms(release_ms, l.sample_rate_hz),
       !.bypass        = IF bypass # 0 THEN 1 ELSE 0,
       !.stereo_link   = IF stereo_link # 0 THEN 1 ELSE 0]

\* a clamp that sends every unsupported channel count to mono
clamp_channels_mono_fallback(channels) ==
    IF channels = 2 THEN 2 ELSE 1

\* channels.min(2).max(1)
clamp_channels(channels) ==
    IF channels >= 2 THEN 2 ELSE IF channels < 1 THEN 1 ELSE channels

\* frames.saturating_mul(channels); the model's frame counts are far from
\* usize::MAX, where the product saturates
sample_count(frames, channels) == frames * clamp_channels(channels)

\* if peak > ceiling { ceiling / peak } else { 1.0 }
target_gain(peak, ceiling) ==
    IF Gt(peak, ceiling) THEN Div(ceiling, peak) ELSE One

\* an envelope that smooths in both directions: no instant attack
next_gain_smoothed(g, target, rel) ==
    Add(Mul(g, rel), Mul(Sub(One, rel), target))

\* an envelope whose release lacks the (1.0 - rel) * target term
next_gain_decay(g, target, rel) ==
    IF Lt(target, g) THEN target ELSE Mul(g, rel)

\* if target < g { target } else { g * rel + (1.0 - rel) * target }
next_gain(g, target, rel) ==
    IF Lt(target, g) THEN target
    ELSE Add(Mul(g, rel), Mul(Sub(One, rel), target))

\* output.copy_from_slice(input): the n samples of the slice
copy_from_slice(output, input, n) ==
    [i \in DOMAIN output |-> IF i <= n THEN input[i] ELSE output[i]]

(***************************************************************************)
(* The loops keep the source's 0-based i and idx; a buffer is a sequence,  *)
(* so the source's input[idx] is input[idx + 1] here.  st is the loop's    *)
(* running state: [g, output] (stereo-linked, mono) or [g0, g1, output]    *)
(* (independent stereo).                                                   *)
(***************************************************************************)
\* l0.abs().max(r0.abs())
linked_peak(l0, r0) == Max(Abs(l0), Abs(r0))

\* output[idx] = l0 * g; output[idx + 1] = r0 * g
linked_write(st, idx, l0, r0, g) ==
    [g |-> g,
     output |-> [st.output EXCEPT ![idx + 1] = Mul(l0, g), ![idx + 2] = Mul(r0, g)]]

\* one frame of the stereo-linked loop, after the makeup multiplications
linked_frame(l, st, idx, l0, r0) ==
    linked_write(st, idx, l0, r0,
        next_gain(st.g, target_gain(linked_peak(l0, r0), l.ceiling_lin),
                  l.release_coeff))

RECURSIVE linked_loop(_, _, _, _, _)
linked_loop(l, input, frames, i, st) ==
    IF i >= frames THEN st
    ELSE linked_loop(l, input, frames, i + 1,
             linked_frame(l, st, i * 2, Mul(input[i * 2 + 1], l.makeup_lin),
                          Mul(input[i * 2 + 2], l.makeup_lin)))

\* output[i] = v * g0
mono_write(st, i, v, g0) ==
    [g |-> g0, output |-> [st.output EXCEPT ![i + 1] = Mul(v, g0)]]

\* one frame of the mono loop, after the makeup multiplication
mono_frame(l, st, i, v) ==
    mono_write(st, i, v,
        next_gain(st.g, target_gain(Abs(v), l.ceiling_lin), l.release_coeff))

RECURSIVE mono_loop(_, _, _, _, _)
mono_loop(l, input, frames, i, st) ==
    IF i >= frames THEN st
    ELSE mono_loop(l, input, frames, i + 1,
             mono_frame(l, st, i, Mul(input[i + 1], l.makeup_lin)))

\* peaks taken across the channels, as in the stereo-linked loop
stereo_peaks_linked(la, ra) == [l |-> Max(la, ra), r |-> Max(la, ra)]

\* the peaks the independent-stereo loop derives the targets lt and rt from
stereo_peaks(la, ra) == [l |-> la, r |-> ra]

\* output[idx] = lv * g0; output[idx + 1] = rv * g1
stereo_write(st, idx, lv, rv, g0, g1) ==
    [g0 |-> g0, g1 |-> g1,
     output |-> [st.output EXCEPT ![idx + 1] = Mul(lv, g0), ![idx + 2] = Mul(rv, g1)]]

\* the two gain updates of a frame
stereo_gains(l, st, idx, lv, rv, pk) ==
    stereo_write(st, idx, lv, rv,
        next_gain(st.g0, target_gain(pk.l, l.ceiling_lin), l.release_coeff),
        next_gain(st.g1, target_gain(pk.r, l.ceiling_lin), l.release_coeff))

\* one frame of the independent-stereo loop, after the makeup multiplications
stereo_frame(l, st, idx, lv, rv) ==
    stereo_gains(l, st, idx, lv, rv, stereo_peaks(Abs(lv), Abs(rv)))

RECURSIVE stereo_loop(_, _, _, _, _)
stereo_loop(l, input, frames, i, st) ==
    IF i >= frames THEN st
    ELSE stereo_loop(l, input, frames, i + 1,
             stereo_frame(l, st, i * 2, Mul(input[i * 2 + 1], l.makeup_lin),
                          Mul(input[i * 2 + 2], l.makeup_lin)))

\* a bypass branch that also resets the envelopes
process_bypass_reset(l, input, output, n) ==
    [l |-> [l EXCEPT !.gain_linked = One, !.gain_ch0 = One, !.gain_ch1 = One],
     output |-> copy_from_slice(output, input, n)]

\* the bypass branch
process_bypass(l, input, output, n) ==
    [l |-> l, output |-> copy_from_slice(output, input, n)]

\* a store of the linked gain that also resets the per-channel gains
linked_store_reset(l, r) ==
    [l |-> [l EXCEPT !.gain_linked = r.g, !.gain_ch0 = One, !.gain_ch1 = One],
     output |-> r.output]

\* l.gain_linked = g
linked_store(l, r) == [l |-> [l EXCEPT !.gain_linked = r.g], output |-> r.output]

\* the stereo-linked branch
process_linked(l, input, output, frames) ==
    linked_store(l, linked_loop(l, input, frames, 0,
                                [g |-> l.gain_linked, output |-> output]))

\* l.gain_ch0 = g0
mono_store(l, r) == [l |-> [l EXCEPT !.gain_ch0 = r.g], output |-> r.output]

\* the mono branch
process_mono(l, input, output, frames) ==
    mono_store(l, mono_loop(l, input, frames, 0,
                            [g |-> l.gain_ch0, output |-> output]))

\* l.gain_ch0 = g0; l.gain_ch1 = g1
stereo_store(l, r) ==
    [l |-> [l EXCEPT !.gain_ch0 = r.g0, !.gain_ch1 = r.g1], output |-> r.output]

\* the independent-stereo branch
process_stereo(l, input, output, frames) ==
    stereo_store(l, stereo_loop(l, input, frames, 0,
                     [g0 |-> l.gain_ch0, g1 |-> l.gain_ch1, output |-> output]))

\* a null check that leaves out in_ptr
process_returns_early_in_unchecked(a) == a.ptr_null \/ a.out_null

\* ptr.is_null() || in_ptr.is_null() || out_ptr.is_null()
process_returns_early(a) == a.ptr_null \/ a.in_null \/ a.out_null

\* the path the call takes past the null and bypass checks
process_path(l, channels) ==
    IF l.stereo_link # 0 /\ channels = 2 THEN "linked"
    ELSE IF channels = 1 THEN "mono"
    ELSE "stereo"

\* the call past its null check, on the clamped channel count
process_clamped(l, output, a, channels) ==
    IF l.bypass # 0
    THEN process_bypass(l, a.input, output, sample_count(a.frames, a.channels))
    ELSE IF process_path(l, channels) = "linked"
         THEN process_linked(l, a.input, output, a.frames)
    ELSE IF process_path(l, channels) = "mono"
         THEN process_mono(l, a.input, output, a.frames)
    ELSE process_stereo(l, a.input, output, a.frames)

\* limiter_process_interleaved on the Limiter l and the caller's output
\* memory: the Limiter and the output memory it leaves.  a is the call:
\* [ptr_null, in_null, out_null, input, frames, channels].
limiter_process_interleaved(l, output, a) ==
    IF process_returns_early(a) THEN [l |-> l, output |-> output]
    ELSE process_clamped(l, output, a, clamp_channels(a.channels))

(***************************************************************************)
(* The state machine.                                                      *)
(***************************************************************************)
\* most calls explored from construction
MaxCalls == 3
\* most frames in one block
MaxFrames == 2

VARIABLES
    ptr,     \* the handle limiter_new returned: "live" or "freed"
    l,       \* the Limiter behind the handle
    output,  \* the caller's output memory, 2 * MaxFrames samples
    call,    \* the last call: its arguments and the state it found
    calls    \* calls made so far

vars == <<ptr, l, output, call, calls>>

BufLen == 2 * MaxFrames

\* the largest finite value of the format (f32::MAX)
MaxFinite == Fin(0, 2^MantBits - 1, LsbMax)

(***************************************************************************)
(* The arguments the calls are explored with.  Dom is the everyday use: a  *)
(* quiet and a loud sample, blocks of every length, mono and stereo, the  *)
(* channel counts 0 and 7 that the call clamps, parameters in range.       *)
(* DomExtreme is the use at the edges: non-finite and out-of-range         *)
(* parameters and sample rates, the largest finite sample, short mono      *)
(* blocks.                                                                 *)
(***************************************************************************)
Quiet == Ratio(1, 10)
Loud  == Ratio(13, 8)

Dom ==
    [sample_rates |-> {IntF(8000)},
     samples      |-> {Quiet, Loud},
     frames       |-> 0..MaxFrames,
     channels     |-> {1, 2},
     odd_channels |-> {0, 7},
     ceiling_dbs  |-> {IntF(-6)},
     release_ms   |-> {IntF(1)},
     makeup_dbs   |-> {IntF(0), IntF(6)},
     flags        |-> {0, 7}]

DomExtreme ==
    [sample_rates |-> {IntF(8000), Inf(0)},
     samples      |-> {Quiet, MaxFinite},
     frames       |-> {1},
     channels     |-> {1},
     odd_channels |-> {},
     ceiling_dbs  |-> {NaN, IntF(6)},
     release_ms   |-> {Inf(0), IntF(6000)},
     makeup_dbs   |-> {Inf(1), IntF(30)},
     flags        |-> {0, 7}]

Buffers(D, n) == [1..n -> D.samples]

\* a call with every handle present
ValidArgs(D, f, c) ==
    [ptr_null : {FALSE}, in_null : {FALSE}, out_null : {FALSE},
     frames : {f}, channels : {c}, input : Buffers(D, sample_count(f, c))]

\* a call of one loud mono frame with handle k of the three null
NullArgs(k) ==
    [ptr_null |-> k = 1, in_null |-> k = 2, out_null |-> k = 3,
     frames |-> 1, channels |-> 1, input |-> <<Loud>>]

\* the calls explored: every block on 1 and 2 channels, single frames on
\* the other channel counts, and the calls with a null handle or buffer
ProcessArgs(D) ==
    UNION { ValidArgs(D, f, c) : f \in D.frames, c \in D.channels }
    \cup UNION { ValidArgs(D, 1, c) : c \in D.odd_channels }
    \cup { NullArgs(k) : k \in 1..3 }

InitOn(D) ==
    /\ ptr = "live"
    /\ \E sr \in D.sample_rates :
          /\ l = limiter_new(sr)
          /\ call = [op |-> "new", sample_rate_hz |-> sr]
    /\ output = [i \in 1..BufLen |-> Zero(0)]
    /\ calls = 0

\* limiter_new, once the handle of the previous instance is gone
New(sr) ==
    /\ ptr = "freed"
    /\ calls < MaxCalls
    /\ ptr' = "live"
    /\ l' = limiter_new(sr)
    /\ call' = [op |-> "new", sample_rate_hz |-> sr]
    /\ calls' = calls + 1
    /\ UNCHANGED output

\* limiter_free
Free(ptr_null) ==
    /\ ptr = "live"
    /\ calls < MaxCalls
    /\ ptr' = IF ptr_null THEN ptr ELSE "freed"
    /\ call' = [op |-> "free", ptr_null |-> ptr_null, pre |-> l, pre_output |-> output]
    /\ calls' = calls + 1
    /\ UNCHANGED <<l, output>>

\* limiter_set_params
SetParams(ptr_null, ceiling_db, release_ms, makeup_db, bypass, stereo_link) ==
    /\ ptr = "live"
    /\ calls < MaxCalls
    /\ l' = IF ptr_null THEN l
            ELSE set_params(l, ceiling_db, release_ms, makeup_db, bypass, stereo_link)
    /\ call' = [op |-> "set_params", ptr_null |-> ptr_null, pre |-> l,
                pre_output |-> output,
                ceiling_db |-> ceiling_db, release_ms |-> release_ms,
                makeup_db |-> makeup_db, bypass |-> bypass,
                stereo_link |-> stereo_link]
    /\ calls' = calls + 1
    /\ UNCHANGED <<ptr, output>>

\* limiter_process_interleaved
Process(a) ==
    /\ ptr = "live"
    /\ calls < MaxCalls
    /\ LET r == limiter_process_interleaved(l, output, a)
       IN /\ l' = r.l
          /\ output' = r.output
    /\ call' = [op |-> "process", pre |-> l, pre_output |-> output, args |-> a]
    /\ calls' = calls + 1
    /\ UNCHANGED ptr

NextOn(D) ==
    \/ \E sr \in D.sample_rates : New(sr)
    \/ \E n \in BOOLEAN : Free(n)
    \/ \E c \in D.ceiling_dbs, r \in D.release_ms, m \in D.makeup_dbs,
          b \in D.flags, s \in D.flags : SetParams(FALSE, c, r, m, b, s)
    \/ \E c \in D.ceiling_dbs, r \in D.release_ms :
          SetParams(TRUE, c, r, IntF(6), 7, 0)
    \/ \E a \in ProcessArgs(D) : Process(a)

Init == InitOn(Dom)
Next == NextOn(Dom)
Spec == Init /\ [][Next]_vars

InitExtreme == InitOn(DomExtreme)
NextExtreme == NextOn(DomExtreme)
SpecExtreme == InitExtreme /\ [][NextExtreme]_vars

(***************************************************************************)
(* The properties.  They are stated on the last call: call holds its       *)
(* arguments and the Limiter and output memory it found, l and output are  *)
(* what it left.  The frame layout and the path of a call are taken from   *)
(* the call's arguments as the specification describes them.               *)
(***************************************************************************)
\* the last call was a process call with all three handles present
Processed ==
    /\ call.op = "process"
    /\ ~call.args.ptr_null /\ ~call.args.in_null /\ ~call.args.out_null

Bypassed == Processed /\ call.pre.bypass # 0
Active == Processed /\ call.pre.bypass = 0

\* clamp(channel_count, 1, 2)
ClaimedChannels(c) == IF c < 1 THEN 1 ELSE IF c > 2 THEN 2 ELSE c

\* the samples of the last call's block
Samples == call.args.frames * ClaimedChannels(call.args.channels)

\* the path a non-bypassed call selects
Path ==
    IF ClaimedChannels(call.args.channels) = 1 THEN "mono"
    ELSE IF call.pre.stereo_link # 0 THEN "linked"
    ELSE "stereo"

Config(x) ==
    <<x.ceiling_lin, x.makeup_lin, x.release_coeff, x.bypass, x.stereo_link,
      x.sample_rate_hz>>

Gains(x) == <<x.gain_linked, x.gain_ch0, x.gain_ch1>>

\* C1: every sample written by a non-bypassed process call has magnitude
\* at most the ceiling_lin in effect during the call, on every path, for
\* every frame of the block and whatever the gains were before the call.
OutputWithinCeiling ==
    Active => \A i \in 1..Samples : Le(Abs(output[i]), call.pre.ceiling_lin)

\* C2: a bypassed process call writes exactly the frames * clamp(channels)
\* input samples to the output, unchanged and in order, and leaves the three
\* gains and every configuration field as they were.
BypassIsIdentity ==
    Bypassed =>
        /\ l = call.pre
        /\ \A i \in 1..BufLen :
              output[i] = IF i <= Samples THEN call.args.input[i]
                          ELSE call.pre_output[i]

\* a bypassed stereo block of loud samples on a limiter whose linked gain
\* was reduced before
BypassOfReducedLimiter ==
    /\ Bypassed
    /\ call.args.frames = MaxFrames /\ call.args.channels = 2
    /\ call.args.input[1] = Loud
    /\ call.pre.gain_linked # One
    /\ output # call.pre_output

\* C6: process with a null instance handle, input buffer or output buffer
\* writes no output sample and changes no field of the instance; set_params
\* and free with a null handle change nothing.
NullIsNoOp ==
    /\ (/\ call.op = "process"
        /\ (call.args.ptr_null \/ call.args.in_null \/ call.args.out_null))
       => (l = call.pre /\ output = call.pre_output /\ ptr = "live")
    /\ (call.op \in {"set_params", "free"} /\ call.ptr_null)
       => (l = call.pre /\ output = call.pre_output /\ ptr = "live")

\* a loud frame offered with a null input buffer to a limiter that is not
\* bypassed and whose output memory holds an earlier block
NullInputOnActiveLimiter ==
    /\ call.op = "process"
    /\ call.args.in_null /\ ~call.args.ptr_null /\ ~call.args.out_null
    /\ call.pre.bypass = 0
    /\ call.args.input[1] = Loud
    /\ call.pre_output[1] # Zero(0)

\* C9: a non-bypassed process call changes no configuration field and only
\* the gain of the path it selects (linked: gain_linked; mono: gain_ch0;
\* independent stereo: gain_ch0 and gain_ch1); the other gains keep their
\* values, also across set_params, and so are found unchanged by a later
\* call that selects their path.
ProcessKeepsOtherState ==
    /\ Active =>
          /\ Config(l) = Config(call.pre)
          /\ Path = "linked" => /\ l.gain_ch0 = call.pre.gain_ch0
                                /\ l.gain_ch1 = call.pre.gain_ch1
          /\ Path = "mono" => /\ l.gain_linked = call.pre.gain_linked
                              /\ l.gain_ch1 = call.pre.gain_ch1
          /\ Path = "stereo" => l.gain_linked = call.pre.gain_linked
          /\ call.args.frames = 0 => l = call.pre
    /\ call.op = "set_params" => Gains(l) = Gains(call.pre)

\* a linked call that reduces gain_linked while gain_ch0 holds a reduced
\* value left by an earlier mono call
LinkedCallWithStaleChannelGain ==
    /\ Active /\ Path = "linked"
    /\ call.pre.gain_ch0 # One
    /\ l.gain_linked # call.pre.gain_linked
    /\ l.gain_ch0 = call.pre.gain_ch0

\* C7: in every state reachable from construction at any sample rate by
\* set_params calls with arbitrary arguments, 0 < ceiling_lin <= 1, the
\* makeup lies between the gains of -24 dB and 24 dB, release_coeff lies in
\* the open interval (0, 1), a non-finite argument is replaced by the
\* minimum of its range, and bypass and stereo_link are 0 or 1 (1 for any
\* nonzero flag).
ConfigValid ==
    /\ Lt(Zero(0), l.ceiling_lin) /\ Le(l.ceiling_lin, One)
    /\ Le(db_to_lin(IntF(-24)), l.makeup_lin)
    /\ Le(l.makeup_lin, db_to_lin(IntF(24)))
    /\ Lt(Zero(0), l.release_coeff) /\ Lt(l.release_coeff, One)
    /\ l.bypass \in {0, 1} /\ l.stereo_link \in {0, 1}
    /\ (call.op = "set_params" /\ ~call.ptr_null) =>
          /\ ~IsFinite(call.ceiling_db) => l.ceiling_lin = db_to_lin(IntF(-60))
          /\ ~IsFinite(call.makeup_db) => l.makeup_lin = db_to_lin(IntF(-24))
          /\ ~IsFinite(call.release_ms) =>
                l.release_coeff =
                    release_coeff_for_ms(Ratio(1, 10), l.sample_rate_hz)
          /\ l.bypass = 1 <=> call.bypass # 0
          /\ l.stereo_link = 1 <=> call.stereo_link # 0

\* C8: in every state reachable from construction by set_params calls and
\* process calls on finite samples, gain_linked, gain_ch0 and gain_ch1 lie
\* in (0, 1]; all three are 1.0 right after construction.
GainsInUnitInterval ==
    /\ \A i \in 1..3 : Lt(Zero(0), Gains(l)[i]) /\ Le(Gains(l)[i], One)
    /\ call.op = "new" => Gains(l) = <<One, One, One>>

(***************************************************************************)
(* The envelope of a call, lane by lane.  A lane is what one gain follows: *)
(* the louder sample of each frame on the stereo-linked path, the sample   *)
(* of each frame in mono, one channel's samples in independent stereo.     *)
(* For every frame a lane has the peak after makeup and the magnitude of   *)
(* the output written; pre and post are its gain before and after the      *)
(* call.                                                                   *)
(***************************************************************************)
PeakAt(k) == Abs(Mul(call.args.input[k], call.pre.makeup_lin))
OutAt(k) == Abs(output[k])

LinkedLane ==
    [peaks |-> [i \in 1..call.args.frames |-> Max(PeakAt(2*i - 1), PeakAt(2*i))],
     outs  |-> [i \in 1..call.args.frames |-> Max(OutAt(2*i - 1), OutAt(2*i))],
     pre   |-> call.pre.gain_linked,
     post  |-> l.gain_linked]

MonoLane ==
    [peaks |-> [i \in 1..call.args.frames |-> PeakAt(i)],
     outs  |-> [i \in 1..call.args.frames |-> OutAt(i)],
     pre   |-> call.pre.gain_ch0,
     post  |-> l.gain_ch0]

\* channel k of independent stereo, k = 0 or 1
ChannelLane(k) ==
    [peaks |-> [i \in 1..call.args.frames |-> PeakAt(2*i - 1 + k)],
     outs  |-> [i \in 1..call.args.frames |-> OutAt(2*i - 1 + k)],
     pre   |-> IF k = 0 THEN call.pre.gain_ch0 ELSE call.pre.gain_ch1,
     post  |-> IF k = 0 THEN l.gain_ch0 ELSE l.gain_ch1]

Lanes ==
    IF Path = "linked" THEN {LinkedLane}
    ELSE IF Path = "mono" THEN {MonoLane}
    ELSE {ChannelLane(0), ChannelLane(1)}

\* the target ceiling_lin / peak of a frame
TargetOf(peak) == Div(call.pre.ceiling_lin, peak)

\* the lane's first frame is an attack: its peak exceeds the ceiling and
\* the target is below the gain the call found
Attacked(x) ==
    /\ Gt(x.peaks[1], call.pre.ceiling_lin)
    /\ Lt(TargetOf(x.peaks[1]), x.pre)

\* every frame of the lane is at or below the ceiling
QuietLane(x) ==
    \A i \in 1..call.args.frames : Le(x.peaks[i], call.pre.ceiling_lin)

\* a is a normal number of the format
IsNormal(a) == IsFinite(a) /\ a.m >= 2^(MantBits - 1)

\* |a - b| <= b * 2^-(MantBits - 2) for finite a, b >= 0: a is b up to the
\* error of two roundings
Near(a, b) ==
    /\ IsFinite(a) /\ IsFinite(b)
    /\ a.e - b.e \in -1..1
    /\ LET e == IF a.e < b.e THEN a.e ELSE b.e
       IN Mag(a.m * 2^(a.e - e) - b.m * 2^(b.e - e)) * 2^(MantBits - 2)
             <= b.m * 2^(b.e - e)

\* C3 as stated: when the first frame of a call is an attack, the louder
\* output sample of that frame has magnitude ceiling_lin, and after a
\* one-frame call the gain equals the target ceiling_lin / peak exactly.
AttackReachesCeilingExactly ==
    (Active /\ call.args.frames >= 1) =>
        \A x \in Lanes :
            Attacked(x) =>
                /\ x.outs[1] = call.pre.ceiling_lin
                /\ call.args.frames = 1 => x.post = TargetOf(x.peaks[1])

\* C3 as amended: when the first frame of a call is an attack and the target
\* ceiling_lin / peak is a normal number, the louder output sample of that
\* frame has magnitude ceiling_lin up to the two roundings of the division
\* and the multiplication (relative error at most 2^-(MantBits-2)), and
\* after a one-frame call the gain equals the target exactly.
AttackReachesCeiling ==
    (Active /\ call.args.frames >= 1) =>
        \A x \in Lanes :
            (Attacked(x) /\ IsNormal(TargetOf(x.peaks[1]))) =>
                /\ Near(x.outs[1], call.pre.ceiling_lin)
                /\ call.args.frames = 1 => x.post = TargetOf(x.peaks[1])

\* a one-frame linked attack on a fresh gain of 1.0 whose output is not the
\* ceiling itself
LinkedAttackOffCeiling ==
    /\ Active /\ Path = "linked" /\ call.args.frames = 1
    /\ LinkedLane.pre = One
    /\ Attacked(LinkedLane)
    /\ LinkedLane.post = TargetOf(LinkedLane.peaks[1])
    /\ LinkedLane.outs[1] # call.pre.ceiling_lin

\* C4 as stated: over a call whose frames all stay at or below the ceiling
\* the gain of each lane does not decrease, increases strictly when it was
\* below 1.0, and does not exceed 1.0 when it was at or below 1.0.
ReleaseStrictlyIncreases ==
    (Active /\ call.args.frames >= 1) =>
        \A x \in Lanes :
            (QuietLane(x) /\ Le(x.pre, One)) =>
                /\ Le(x.pre, x.post)
                /\ Lt(x.pre, One) => Lt(x.pre, x.post)
                /\ Le(x.post, One)

\* C4 as amended: over a call whose frames all stay at or below the ceiling
\* the gain of each lane does not decrease and does not exceed 1.0 when it
\* was at or below 1.0 (it may stay where it is below 1.0); and when an
\* attack frame is followed by a quiet frame in the same block, the gain
\* after the block is not below the target of the attack.
ReleaseNeverDecreases ==
    (Active /\ call.args.frames >= 1) =>
        \A x \in Lanes :
            /\ (QuietLane(x) /\ Le(x.pre, One)) =>
                  (Le(x.pre, x.post) /\ Le(x.post, One))
            /\ (/\ call.args.frames = 2
                /\ Attacked(x)
                /\ Le(x.peaks[2], call.pre.ceiling_lin)) =>
                  (Le(TargetOf(x.peaks[1]), x.post) /\ Le(x.post, One))

\* a quiet call that finds a reduced gain and leaves a larger one
QuietCallRecovers ==
    /\ Active /\ call.args.frames >= 1
    /\ \E x \in Lanes : QuietLane(x) /\ Lt(x.pre, One) /\ Lt(x.pre, x.post)

\* what the last call would have left had it been made with channel count c
WithChannels(c) ==
    limiter_process_interleaved(call.pre, call.pre_output,
                                [call.args EXCEPT !.channels = c])

\* what the last call would have left had its input been b
WithInput(b) ==
    limiter_process_interleaved(call.pre, call.pre_output,
                                [call.args EXCEPT !.input = b])

Observed == [l |-> l, output |-> output]

\* C5: on the same state and buffers a call with channel count 0 leaves the
\* output and gains of a call with channel count 1, and a call with a
\* channel count above 2 those of a call with channel count 2; the block is
\* frames * clamped channels samples long and no sample beyond it is
\* written.
ChannelClamping ==
    Processed =>
        /\ Len(call.args.input) = Samples
        /\ \A i \in (Samples + 1)..BufLen : output[i] = call.pre_output[i]
        /\ ClaimedChannels(call.args.channels) = 1 =>
              \A c \in {0, 1} \ {call.args.channels} : WithChannels(c) = Observed
        /\ ClaimedChannels(call.args.channels) = 2 =>
              \A c \in {2, 3, 7} \ {call.args.channels} : WithChannels(c) = Observed

\* a non-bypassed call with 7 channels that limits a loud stereo frame
SevenChannelCall ==
    /\ Active /\ call.args.channels = 7
    /\ call.args.input[2] = Loud
    /\ output[2] # call.pre_output[2]
    /\ Gains(l) # Gains(call.pre)

\* the blocks that agree with the last call's input on channel k (0 or 1)
SameOnChannel(k) ==
    { b \in Buffers(Dom, Samples) :
        \A i \in 1..call.args.frames :
            b[2*i - 1 + k] = call.args.input[2*i - 1 + k] }

\* the frames that have the peak of the last call's single frame
SamePeak ==
    { b \in Buffers(Dom, Samples) :
        Max(Abs(b[1]), Abs(b[2]))
            = Max(Abs(call.args.input[1]), Abs(call.args.input[2])) }

\* C10: in independent stereo the left outputs and gain_ch0 are the same
\* for all blocks that agree on the left samples, and the right outputs and
\* gain_ch1 for all blocks that agree on the right samples; on the
\* stereo-linked path both samples of a frame are multiplied by one gain,
\* which is the same for all frames with the same larger magnitude.
ChannelIndependence ==
    /\ (Active /\ Path = "stereo") =>
          /\ \A b \in SameOnChannel(0) :
                /\ WithInput(b).l.gain_ch0 = l.gain_ch0
                /\ \A i \in 1..call.args.frames :
                      WithInput(b).output[2*i - 1] = output[2*i - 1]
          /\ \A b \in SameOnChannel(1) :
                /\ WithInput(b).l.gain_ch1 = l.gain_ch1
                /\ \A i \in 1..call.args.frames :
                      WithInput(b).output[2*i] = output[2*i]
    /\ (Active /\ Path = "linked" /\ call.args.frames = 1) =>
          /\ \A k \in 1..2 :
                output[k] = Mul(Mul(call.args.input[k], call.pre.makeup_lin),
                                l.gain_linked)
          /\ \A b \in SamePeak : WithInput(b).l.gain_linked = l.gain_linked

\* an independent-stereo block, loud on the left and quiet on the right,
\* that leaves the two channels at different gains
ChannelsLimitedApart ==
    /\ Active /\ Path = "stereo" /\ call.args.frames = MaxFrames
    /\ call.args.input[1] = Loud /\ call.args.input[2] = Quiet
    /\ l.gain_ch0 # call.pre.gain_ch0
    /\ l.gain_ch1 = call.pre.gain_ch1
    /\ l.gain_ch0 # l.gain_ch1
====
